---- MODULE Spec2Model ----
(***************************************************************************)
(* jsonflag: configuration from command-line flags, environment variables, *)
(* a JSON document and flag defaults (src/jsonflag.go).                    *)
(*                                                                         *)
(* Strings are sequences of one-character strings, so that prefix tests,   *)
(* upper-casing, $NAME expansion and integer parsing are computed the way  *)
(* the Go code computes them.                                              *)
(***************************************************************************)
EXTENDS Integers, Sequences, FiniteSets, TLC

(***************************************************************************)
(* Characters and strings                                                  *)
(***************************************************************************)

\* The characters in use, in ASCII order.
Alphabet ==
    << "$", "-", ".", "/",
       "0", "1", "2", "3", "4", "5", "6", "7", "8", "9",
       "=",
       "A", "B", "C", "D", "E", "F", "G", "H", "I", "J", "K", "L", "M",
       "N", "O", "P", "Q", "R", "S", "T", "U", "V", "W", "X", "Y", "Z",
       "_",
       "a", "b", "c", "d", "e", "f", "g", "h", "i", "j", "k", "l", "m",
       "n", "o", "p", "q", "r", "s", "t", "u", "v", "w", "x", "y", "z",
       "{", "}" >>

\* the position of a character in Alphabet
OrdTable == [c \in {Alphabet[i] : i \in 1..Len(Alphabet)} |->
                CHOOSE i \in 1..Len(Alphabet) : Alphabet[i] = c]
Ord(c) == OrdTable[c]

Digits == {"0", "1", "2", "3", "4", "5", "6", "7", "8", "9"}
UpperLetters == {Alphabet[i] : i \in 16..41}
LowerLetters == {Alphabet[i] : i \in 43..68}

\* the suffix of s from (1-based) position i on: s[i-1:] in Go
From(s, i) == SubSeq(s, i, Len(s))

\* strings.HasPrefix
HasPrefix(s, p) == Len(s) >= Len(p) /\ SubSeq(s, 1, Len(p)) = p

\* strings.TrimPrefix
TrimPrefix(s, p) == IF HasPrefix(s, p) THEN From(s, Len(p) + 1) ELSE s

\* unicode.ToUpper on one character: the capitals sit 27 places before
\* the small letters in Alphabet
UpperChar(c) == IF c \in LowerLetters THEN Alphabet[Ord(c) - 27] ELSE c

\* strings.ToUpper
ToUpper(s) == [i \in 1..Len(s) |-> UpperChar(s[i])]

\* s < t in Go's string order (byte-wise lexicographic)
RECURSIVE StrLess(_, _)
StrLess(s, t) ==
    IF t = <<>> THEN FALSE
    ELSE IF s = <<>> THEN TRUE
    ELSE IF s[1] # t[1] THEN Ord(s[1]) < Ord(t[1])
    ELSE StrLess(Tail(s), Tail(t))

(***************************************************************************)
(* State                                                                   *)
(***************************************************************************)

VARIABLES
    Args,       \* os.Args: the program name, then the raw arguments
    environ,    \* the process environment: the variables that are set
    fs,         \* the file system: absolute path -> what is there
    Path,       \* jsonflag.Path
    EnvPrefix,  \* jsonflag.EnvPrefix
    formal,     \* flag.CommandLine: the registered flags, by name
    tc,         \* the config struct tc of the application
    tc2,        \* the second config struct, tc2, of the application
    cArg,       \* the struct that c, the argument of Parse, points to:
                \* "tc" or "tc2"
    calls,      \* the calls of Parse so far, the one that runs included
    pc,         \* the statement of Parse that runs next, by position
    status,     \* "running", or how the call of Parse ended
    entryPath,  \* history: Path as it stood when Parse was called
    tc0,        \* history: the config struct as it stood when Parse was called
    trace,      \* history: the steps Parse has run, in order
    jsonPaths,  \* history: the configPath arguments parseJSON was called with
    opened,     \* history: the absolute paths handed to os.Open
    cli,        \* history: flag name -> the value flag.Parse last took for it
                \*          from the command line
    ret         \* history: tc, Path and the path of the document as the
                \*          call of Parse before this one left them; <<>>
                \*          in the first call

vars == << Args, environ, fs, Path, EnvPrefix, formal, tc, tc2, cArg, calls, pc,
           status, entryPath, tc0, trace, jsonPaths, opened, cli, ret >>

(***************************************************************************)
(* The environment                                                         *)
(***************************************************************************)

\* os.Getenv: the empty string for a variable that is not set
Getenv(name) == IF name \in DOMAIN environ THEN environ[name] ELSE <<>>

isShellSpecialVar(c) == c \in {"$", "-"} \cup Digits

isAlphaNum(c) == c = "_" \/ c \in Digits \/ c \in LowerLetters \/ c \in UpperLetters

\* the length of the longest prefix of s made of alphanumerics
RECURSIVE AlphaNumRun(_)
AlphaNumRun(s) ==
    IF s # <<>> /\ isAlphaNum(s[1]) THEN 1 + AlphaNumRun(Tail(s)) ELSE 0

\* the (1-based) position of the first "}" of s at or after position i; 0 if none
RECURSIVE ClosingBrace(_, _)
ClosingBrace(s, i) ==
    IF i > Len(s) THEN 0
    ELSE IF s[i] = "}" THEN i
    ELSE ClosingBrace(s, i + 1)

\* os.getShellName on a non-empty s, the text after a "$": the name of the
\* variable and the number of characters it takes up
getShellName(s) ==
    IF s[1] = "{" THEN
        IF Len(s) > 2 /\ isShellSpecialVar(s[2]) /\ s[3] = "}"
        THEN [name |-> <<s[2]>>, w |-> 3]
        ELSE LET b == ClosingBrace(s, 2) IN
             IF b = 0 THEN [name |-> <<>>, w |-> 1]       \* bad syntax: eat "${"
             ELSE IF b = 2 THEN [name |-> <<>>, w |-> 2]  \* bad syntax: eat "${}"
             ELSE [name |-> SubSeq(s, 2, b - 1), w |-> b]
    ELSE IF isShellSpecialVar(s[1]) THEN [name |-> <<s[1]>>, w |-> 1]
    ELSE LET n == AlphaNumRun(s) IN [name |-> SubSeq(s, 1, n), w |-> n]

\* os.ExpandEnv: os.Expand(s, os.Getenv)
RECURSIVE ExpandEnv(_)
ExpandEnv(s) ==
    IF s = <<>> THEN <<>>
    ELSE IF s[1] = "$" /\ Len(s) >= 2 THEN
        LET g == getShellName(Tail(s))
            piece == IF g.name = <<>> /\ g.w > 0 THEN <<>>   \* invalid syntax: eaten
                     ELSE IF g.name = <<>> THEN <<"$">>      \* a dollar and no name
                     ELSE Getenv(g.name)
        IN piece \o ExpandEnv(From(s, g.w + 2))
    ELSE <<s[1]>> \o ExpandEnv(Tail(s))

(***************************************************************************)
(* Go values, as reflect sees them                                         *)
(***************************************************************************)

StringV(s) == [k |-> "string", s |-> s]
IntV(n) == [k |-> "int", n |-> n]
NilPtr == [k |-> "ptr", nil |-> TRUE]
PtrTo(v) == [k |-> "ptr", nil |-> FALSE, e |-> v]
SliceV(elems) == [k |-> "slice", e |-> elems]
\* a map: its keys in some order, and the value under each
MapV(keys, vals) == [k |-> "map", keys |-> keys, e |-> vals]
\* a struct: the names of its fields in declaration order, their json tags
\* (empty for a field that has none), and their values
StructV(names, tags, vals) ==
    [k |-> "struct", names |-> names, tags |-> tags, e |-> vals]

\* a field is exported when its name starts with a capital
IsExported(name) == name # <<>> /\ name[1] \in UpperLetters

FieldIndex(v, name) == CHOOSE i \in 1..Len(v.names) : v.names[i] = name
\* v.Name
Field(v, name) == v.e[FieldIndex(v, name)]
\* v.Name = x
WithField(v, name, x) == [v EXCEPT !.e[FieldIndex(v, name)] = x]

\* The outcome of a call that may panic: the value it leaves, and whether
\* it panicked.
Done(v) == [panic |-> FALSE, v |-> v]
Panicked(v) == [panic |-> TRUE, v |-> v]

\* reflect's flags of a Value: whether it is addressable, and whether it was
\* reached through an unexported struct field (read-only). CanSet is
\* addressable and not read-only; SetString panics on a Value that is not.
Flags(addr, ro) == [addr |-> addr, ro |-> ro]
\* reflect.ValueOf(x)
ValueOfFlags == Flags(FALSE, FALSE)
CanSet(fl) == fl.addr /\ ~fl.ro

RECURSIVE expand(_, _)

\* a faulty expand, which returns at once and expands nothing
expandNothing(v, fl) == Done(v)

\* a faulty expand, without the case for slices
expandNoSlice(v, fl) ==
    LET sub(i) == IF v.k = "struct"
                  THEN Flags(fl.addr, fl.ro \/ ~IsExported(v.names[i]))
                  ELSE Flags(FALSE, fl.ro)
        elems[i \in 1..(Len(v.e) + 1)] ==
            IF i > Len(v.e) THEN Done(<<>>)
            ELSE LET r == expand(v.e[i], sub(i))
                 IN IF r.panic THEN Panicked(<<r.v>> \o From(v.e, i + 1))
                    ELSE LET rest == elems[i + 1]
                         IN [panic |-> rest.panic, v |-> <<r.v>> \o rest.v]
    IN CASE v.k = "ptr" ->
              IF v.nil THEN Done(v)
              ELSE LET r == expand(v.e, Flags(TRUE, fl.ro))
                   IN [panic |-> r.panic, v |-> PtrTo(r.v)]
         [] v.k \in {"struct", "map"} ->
              LET r == elems[1] IN [panic |-> r.panic, v |-> [v EXCEPT !.e = r.v]]
         [] v.k = "string" ->
              IF CanSet(fl) THEN Done(StringV(ExpandEnv(v.s))) ELSE Panicked(v)
         [] OTHER -> Done(v)

\* expand(v): the value expand leaves in place of v, which reflect handed
\* out with the flags fl, and whether it panicked.
expand(v, fl) ==
    LET \* the flags of the i-th element, as v.Field(i), v.Index(i) and
        \* v.MapIndex(key) hand it out
        sub(i) == CASE v.k = "struct" -> Flags(fl.addr, fl.ro \/ ~IsExported(v.names[i]))
                    [] v.k = "slice" -> Flags(TRUE, fl.ro)
                    [] OTHER -> Flags(FALSE, fl.ro)
        \* expand the elements from position i on; a panic leaves the
        \* elements after it as they were
        elems[i \in 1..(Len(v.e) + 1)] ==
            IF i > Len(v.e) THEN Done(<<>>)
            ELSE LET r == expand(v.e[i], sub(i))
                 IN IF r.panic THEN Panicked(<<r.v>> \o From(v.e, i + 1))
                    ELSE LET rest == elems[i + 1]
                         IN [panic |-> rest.panic, v |-> <<r.v>> \o rest.v]
    IN CASE v.k = "ptr" ->
              IF v.nil THEN Done(v)                        \* for nil pointers
              ELSE LET r == expand(v.e, Flags(TRUE, fl.ro))
                   IN [panic |-> r.panic, v |-> PtrTo(r.v)]
         [] v.k \in {"struct", "slice", "map"} ->
              LET r == elems[1] IN [panic |-> r.panic, v |-> [v EXCEPT !.e = r.v]]
         [] v.k = "string" ->
              IF CanSet(fl) THEN Done(StringV(ExpandEnv(v.s)))
              ELSE Panicked(v)                             \* v.SetString panics
         [] OTHER -> Done(v)

(***************************************************************************)
(* The flag package: registered flags and their storage                    *)
(***************************************************************************)

config == <<"c", "o", "n", "f", "i", "g">>

\* What the flags write to: the package variable Path, the fields of tc
\* and those of tc2.
Mem(path, struct) == [Path |-> path, tc |-> struct, tc2 |-> tc2]

\* a registered flag (flag.Flag): the kind of its Value, the variable it is
\* bound to (the field of tc of that name, or <<>> for Path) and its default
FlagOf(kind, target, def) ==
    [kind |-> kind, target |-> target, DefValue |-> def, obj |-> "tc"]

\* a registered flag that is bound to the field target of tc2
FlagOf2(kind, target, def) ==
    [kind |-> kind, target |-> target, DefValue |-> def, obj |-> "tc2"]

\* the value of digit c in strconv: 0-9, then a-z or A-Z as 10-35; 99 for
\* a character that is no digit
DigitVal(c) ==
    IF c \in Digits THEN Ord(c) - 5
    ELSE IF c \in LowerLetters THEN Ord(c) - 43 + 10
    ELSE IF c \in UpperLetters THEN Ord(c) - 16 + 10
    ELSE 99

\* the number the digits d spell in the base, after acc; -1 on a character
\* that is no digit of the base
RECURSIVE ParseDigits(_, _, _)
ParseDigits(d, base, acc) ==
    IF d = <<>> THEN acc
    ELSE IF DigitVal(d[1]) >= base THEN -1
    ELSE ParseDigits(Tail(d), base, acc * base + DigitVal(d[1]))

\* strconv.ParseInt(s, 0, 64), for strings without "_" and within 64 bits:
\* an optional sign, then a base prefix (0x, 0b, 0o, or 0 for octal) and
\* digits. err when s is no number.
ParseInt(s) ==
    LET neg == s # <<>> /\ s[1] = "-"
        u == IF neg THEN Tail(s) ELSE s
        pre == IF Len(u) >= 2 /\ u[1] = "0" THEN UpperChar(u[2]) ELSE "-"
        base == CASE pre = "X" -> 16 [] pre = "B" -> 2 [] pre = "O" -> 8
                  [] Len(u) >= 2 /\ u[1] = "0" -> 8
                  [] OTHER -> 10
        d == IF pre \in {"X", "B", "O"} THEN From(u, 3)
             ELSE IF base = 8 THEN Tail(u) ELSE u
        n == IF d = <<>> THEN -1 ELSE ParseDigits(d, base, 0)
    IN IF n < 0 THEN [err |-> TRUE, n |-> 0]
       ELSE [err |-> FALSE, n |-> IF neg THEN 0 - n ELSE n]

\* f.Value.Set(s): stringValue.Set stores s, intValue.Set stores the number
\* s parses to and fails, storing nothing, when it does not parse
ValueSet(f, mem, s) ==
    LET store(x) == IF f.target = <<>>
                    THEN [mem EXCEPT !.Path = x.s]
                    ELSE IF f.obj = "tc2"
                    THEN [mem EXCEPT !.tc2 = WithField(mem.tc2, f.target, x)]
                    ELSE [mem EXCEPT !.tc = WithField(mem.tc, f.target, x)]
    IN CASE f.kind = "string" -> [err |-> FALSE, mem |-> store(StringV(s))]
         [] f.kind = "int" ->
              LET r == ParseInt(s)
              IN IF r.err THEN [err |-> TRUE, mem |-> mem]
                 ELSE [err |-> FALSE, mem |-> store(IntV(r.n))]

\* flag.Set(name, value)
FlagSet(name, value, mem) ==
    IF name \notin DOMAIN formal THEN [err |-> TRUE, mem |-> mem]
    ELSE ValueSet(formal[name], mem, value)

\* the strings of the set S in increasing order, as flag.VisitAll visits
RECURSIVE Sorted(_)
Sorted(S) ==
    IF S = {} THEN <<>>
    ELSE LET m == CHOOSE x \in S : \A y \in S \ {x} : StrLess(x, y)
         IN <<m>> \o Sorted(S \ {m})

(***************************************************************************)
(* The document                                                            *)
(***************************************************************************)

\* the working directory of the process
Cwd == <<"/", "w">>

\* filepath.Abs, for paths that filepath.Clean leaves as they are (no ".",
\* "..", doubled or trailing separators) and a working directory that
\* os.Getwd finds: the working directory for the empty path, and prepended
\* to a relative one
Abs(p) ==
    IF p = <<>> THEN Cwd
    ELSE IF p[1] = "/" THEN p
    ELSE Cwd \o <<"/">> \o p

\* What the file system holds at a path: a directory, or a file with a
\* document. syntax tells whether the text is one well-formed JSON object
\* (comments and trailing commas aside); obj gives its members by key.
Dir == [kind |-> "dir"]
File(syntax, obj) == [kind |-> "file", syntax |-> syntax, obj |-> obj]

\* strings.EqualFold on the characters in use
EqualFold(a, b) == ToUpper(a) = ToUpper(b)

\* the name encoding/json knows the i-th field of struct v by
JSONName(v, i) == IF v.tags[i] # <<>> THEN v.tags[i] ELSE v.names[i]

\* the field encoding/json decodes the member named key into: among the
\* exported fields, the one whose name is key, else the first whose name
\* is key but for case; 0 if there is none
JSONField(v, key) ==
    LET fields == {i \in 1..Len(v.names) : IsExported(v.names[i])}
        exact == {i \in fields : JSONName(v, i) = key}
        fold == {i \in fields : EqualFold(JSONName(v, i), key)}
        first(S) == CHOOSE i \in S : \A j \in S : i <= j
    IN IF exact # {} THEN first(exact)
       ELSE IF fold # {} THEN first(fold)
       ELSE 0

\* a faulty Decode, which fails on a member that matches no field
DecodeKnownOnly(file, v) ==
    IF ~file.syntax THEN [err |-> TRUE, v |-> v]
    ELSE LET hit == {key \in DOMAIN file.obj : JSONField(v, key) # 0}
             fits(key) == file.obj[key].k = v.e[JSONField(v, key)].k
             src(i) == {key \in hit : JSONField(v, key) = i /\ fits(key)}
         IN [err |-> \/ \E key \in hit : ~fits(key)
                     \/ hit # DOMAIN file.obj,
             v |-> [v EXCEPT !.e =
                      [i \in 1..Len(v.e) |->
                          IF src(i) = {} THEN v.e[i]
                          ELSE file.obj[CHOOSE key \in src(i) : TRUE]]]]

\* a faulty Decode, which leaves the struct as it was when a member does
\* not fit its field
DecodeNothingOnError(file, v) ==
    IF ~file.syntax THEN [err |-> TRUE, v |-> v]
    ELSE LET hit == {key \in DOMAIN file.obj : JSONField(v, key) # 0}
             fits(key) == file.obj[key].k = v.e[JSONField(v, key)].k
             src(i) == {key \in hit : JSONField(v, key) = i /\ fits(key)}
         IN IF \E key \in hit : ~fits(key) THEN [err |-> TRUE, v |-> v]
            ELSE [err |-> FALSE,
                  v |-> [v EXCEPT !.e =
                           [i \in 1..Len(v.e) |->
                               IF src(i) = {} THEN v.e[i]
                               ELSE file.obj[CHOOSE key \in src(i) : TRUE]]]]

\* json.Decoder.Decode(c) on a file, c pointing to the struct v: nothing
\* is decoded from a text that is not well formed; a member that matches no
\* field is skipped; a member whose value does not fit its field is
\* skipped too and makes the call fail once the other members are in
Decode(file, v) ==
    IF ~file.syntax THEN [err |-> TRUE, v |-> v]
    ELSE LET hit == {key \in DOMAIN file.obj : JSONField(v, key) # 0}
             fits(key) == file.obj[key].k = v.e[JSONField(v, key)].k
             \* the member decoded into field i, when there is one
             src(i) == {key \in hit : JSONField(v, key) = i /\ fits(key)}
         IN [err |-> \E key \in hit : ~fits(key),
             v |-> [v EXCEPT !.e =
                      [i \in 1..Len(v.e) |->
                          IF src(i) = {} THEN v.e[i]
                          ELSE file.obj[CHOOSE key \in src(i) : TRUE]]]]

\* the body of parseJSON after its first statement, with two switches for
\* its faulty variants: whether a file that cannot be opened makes it panic, and
\* whether it expands what it decoded
parseJSONBody(configPath, v, panicOnOpen, expanding) ==
    LET abs == Abs(ExpandEnv(configPath))
    IN IF abs \notin DOMAIN fs
       THEN [panic |-> panicOnOpen, v |-> v, open |-> <<abs>>]
       ELSE IF fs[abs].kind = "dir"
       THEN [panic |-> TRUE, v |-> v, open |-> <<abs>>]
       ELSE LET d == Decode(fs[abs], v)
            IN IF d.err \/ ~expanding
               THEN [panic |-> d.err, v |-> d.v, open |-> <<abs>>]
               ELSE LET x == expand(PtrTo(d.v), ValueOfFlags)
                    IN [panic |-> x.panic, v |-> x.v.e, open |-> <<abs>>]

\* a faulty parseJSON, which does not expand what it decoded
parseJSONNoExpand(configPath, v) ==
    IF configPath = <<>> THEN [panic |-> FALSE, v |-> v, open |-> <<>>]
    ELSE parseJSONBody(configPath, v, TRUE, FALSE)

\* a faulty parseJSON, which goes on without a document when the file
\* cannot be opened
parseJSONIgnoreMissing(configPath, v) ==
    IF configPath = <<>> THEN [panic |-> FALSE, v |-> v, open |-> <<>>]
    ELSE parseJSONBody(configPath, v, FALSE, TRUE)

\* a faulty parseJSON, without the return on the empty path
parseJSONNoEmptyReturn(configPath, v) == parseJSONBody(configPath, v, TRUE, TRUE)

\* parseJSON(configPath, c), c pointing to the struct v: whether it
\* panicked, the struct it leaves, and the paths it handed to os.Open
parseJSON(configPath, v) ==
    IF configPath = <<>> THEN [panic |-> FALSE, v |-> v, open |-> <<>>]
    ELSE LET abs == Abs(ExpandEnv(configPath))
         IN IF abs \notin DOMAIN fs
            THEN [panic |-> TRUE, v |-> v, open |-> <<abs>>]      \* not found
            ELSE IF fs[abs].kind = "dir"
            THEN [panic |-> TRUE, v |-> v, open |-> <<abs>>]      \* unable to decode
            ELSE LET d == Decode(fs[abs], v)
                 IN IF d.err
                    THEN [panic |-> TRUE, v |-> d.v, open |-> <<abs>>]
                    ELSE LET x == expand(PtrTo(d.v), ValueOfFlags)
                         IN [panic |-> x.panic, v |-> x.v.e, open |-> <<abs>>]

(***************************************************************************)
(* Parse                                                                   *)
(***************************************************************************)

DashDashConfig == <<"-", "-">> \o config
DashConfig == <<"-">> \o config
DashDashConfigEq == DashDashConfig \o <<"=">>
DashConfigEq == DashConfig \o <<"=">>

\* a faulty ScanArgs, without the break statements: the last config
\* option wins
RECURSIVE ScanArgsNoBreak(_, _, _)
ScanArgsNoBreak(args, i, path) ==
    IF i > Len(args) THEN path
    ELSE LET arg == args[i] IN
         IF arg = DashDashConfig \/ arg = DashConfig THEN
             IF i + 1 <= Len(args) /\ ~HasPrefix(args[i + 1], <<"-">>)
             THEN ScanArgsNoBreak(args, i + 1, args[i + 1])
             ELSE ScanArgsNoBreak(args, i + 1, path)
         ELSE IF HasPrefix(arg, DashDashConfigEq)
              THEN ScanArgsNoBreak(args, i + 1, TrimPrefix(arg, DashDashConfigEq))
         ELSE IF HasPrefix(arg, DashConfigEq)
              THEN ScanArgsNoBreak(args, i + 1, TrimPrefix(arg, DashConfigEq))
         ELSE ScanArgsNoBreak(args, i + 1, path)

\* a faulty ScanArgs, which falls back to the default of the config flag,
\* not to the Path it found, when the command line names no path
RECURSIVE ScanArgsResetDefault(_, _, _)
ScanArgsResetDefault(args, i, path) ==
    IF i > Len(args) THEN config \o <<".", "j", "s", "o", "n", "5">>
    ELSE LET arg == args[i] IN
         IF arg = DashDashConfig \/ arg = DashConfig THEN
             IF i + 1 <= Len(args) /\ ~HasPrefix(args[i + 1], <<"-">>)
             THEN args[i + 1]
             ELSE ScanArgsResetDefault(args, i + 1, path)
         ELSE IF HasPrefix(arg, DashDashConfigEq)
              THEN TrimPrefix(arg, DashDashConfigEq)
         ELSE IF HasPrefix(arg, DashConfigEq)
              THEN TrimPrefix(arg, DashConfigEq)
         ELSE ScanArgsResetDefault(args, i + 1, path)

\* a faulty ScanArgs, which takes the argument after -config or --config as
\* the path even when it begins with a dash
RECURSIVE ScanArgsTakesDash(_, _, _)
ScanArgsTakesDash(args, i, path) ==
    IF i > Len(args) THEN path
    ELSE LET arg == args[i] IN
         IF arg = DashDashConfig \/ arg = DashConfig THEN
             IF i + 1 <= Len(args)
             THEN args[i + 1]
             ELSE ScanArgsTakesDash(args, i + 1, path)
         ELSE IF HasPrefix(arg, DashDashConfigEq)
              THEN TrimPrefix(arg, DashDashConfigEq)
         ELSE IF HasPrefix(arg, DashConfigEq)
              THEN TrimPrefix(arg, DashConfigEq)
         ELSE ScanArgsTakesDash(args, i + 1, path)

\* The loop over os.Args at the head of Parse, from index i on (os.Args[0],
\* here args[1], is the program name): the Path it leaves, given the Path
\* it found.
RECURSIVE ScanArgs(_, _, _)
ScanArgs(args, i, path) ==
    IF i > Len(args) THEN path
    ELSE LET arg == args[i] IN
         IF arg = DashDashConfig \/ arg = DashConfig THEN
             IF i + 1 <= Len(args) /\ ~HasPrefix(args[i + 1], <<"-">>)
             THEN args[i + 1]
             ELSE ScanArgs(args, i + 1, path)
         ELSE IF HasPrefix(arg, DashDashConfigEq)
              THEN TrimPrefix(arg, DashDashConfigEq)
         ELSE IF HasPrefix(arg, DashConfigEq)
              THEN TrimPrefix(arg, DashConfigEq)
         ELSE ScanArgs(args, i + 1, path)

\* a faulty env, without the test for the empty value
envSetsEmpty(name, mem) ==
    FlagSet(name, Getenv(EnvPrefix \o ToUpper(name)), mem).mem

\* a faulty env, which looks the variable up without EnvPrefix
envNoPrefix(name, mem) ==
    LET v == Getenv(ToUpper(name))
    IN IF v # <<>> THEN FlagSet(name, v, mem).mem ELSE mem

\* a faulty env, which expands the references in the value it sets
envExpands(name, mem) ==
    LET v == Getenv(EnvPrefix \o ToUpper(name))
    IN IF v # <<>> THEN FlagSet(name, ExpandEnv(v), mem).mem ELSE mem

\* env(f) for the flag named name: what it leaves in the flags' storage.
\* The error flag.Set returns is dropped.
env(name, mem) ==
    LET v == Getenv(EnvPrefix \o ToUpper(name))
    IN IF v # <<>> THEN FlagSet(name, v, mem).mem ELSE mem

\* flag.VisitAll(env): env on every registered flag, in the order of names
VisitAllEnv(mem) ==
    LET names == Sorted(DOMAIN formal)
        visit[i \in 0..Len(names)] ==
            IF i = 0 THEN mem ELSE env(names[i], visit[i - 1])
    IN visit[Len(names)]

\* the position of the first "=" of name after its first character; 0 if none
RECURSIVE EqualsAt(_, _)
EqualsAt(name, i) ==
    IF i > Len(name) THEN 0
    ELSE IF name[i] = "=" THEN i
    ELSE EqualsAt(name, i + 1)

\* flag.Parse() on the arguments args (flag.CommandLine, ExitOnError):
\* FlagSet.parseOne until an argument is no flag, for flags that take a
\* value (no boolean flag is registered). exit when the process
\* exits (a usage error, or -h and -help); mem is what is left in the
\* flags' storage; cli gives, next to seen, the value taken for each flag.
RECURSIVE FlagParse(_, _, _)
FlagParse(args, mem, seen) ==
    LET s == args[1]
        numMinuses == IF s[2] = "-" THEN 2 ELSE 1
        rest == From(s, numMinuses + 1)
        eq == EqualsAt(rest, 2)
        name == IF eq = 0 THEN rest ELSE SubSeq(rest, 1, eq - 1)
        hasValue == eq # 0 \/ Len(args) >= 2
        value == IF eq # 0 THEN From(rest, eq + 1) ELSE args[2]
        left == IF eq # 0 THEN Tail(args) ELSE Tail(Tail(args))
        stop == [exit |-> FALSE, mem |-> mem, cli |-> seen]
        fail == [exit |-> TRUE, mem |-> mem, cli |-> seen]
    IN IF args = <<>> THEN stop
       ELSE IF Len(s) < 2 \/ s[1] # "-" THEN stop          \* not a flag
       ELSE IF s = <<"-", "-">> THEN stop                  \* "--" ends the flags
       ELSE IF rest = <<>> \/ rest[1] = "-" \/ rest[1] = "=" THEN fail  \* bad flag syntax
       ELSE IF name \notin DOMAIN formal THEN fail         \* help, or not defined
       ELSE IF ~hasValue THEN fail                         \* flag needs an argument
       ELSE LET r == ValueSet(formal[name], mem, value)
            IN IF r.err THEN fail                          \* invalid value
               ELSE FlagParse(left, r.mem,
                              [n \in DOMAIN seen \cup {name} |->
                                  IF n = name THEN value ELSE seen[n]])

\* Two faulty bodies of Parse: flag.Parse before the document and the
\* environment, and flag.Parse twice, as the older jsonflags.Parse has it.
ParseBodyFlagsFirst == <<"flag.Parse", "parseJSON", "env">>
ParseBodyFlagsTwice == <<"scan", "flag.Parse", "parseJSON", "env", "flag.Parse">>
\* The statements of Parse, in order.
ParseBody == <<"scan", "parseJSON", "env", "flag.Parse">>

\* the statement at pc
AtStmt(stmt) == status = "running" /\ pc <= Len(ParseBody) /\ ParseBody[pc] = stmt

\* the statement at pc is over; Parse returns after the last one
Advance == /\ pc' = pc + 1
           /\ status' = IF pc = Len(ParseBody) THEN "returned" ELSE "running"

\* for i := 1; i < len(os.Args); i++ { ... }
Parse_scan ==
    /\ AtStmt("scan")
    /\ Path' = ScanArgs(Args, 2, Path)
    /\ trace' = Append(trace, "scan")
    /\ Advance
    /\ UNCHANGED << Args, environ, fs, entryPath, tc0, EnvPrefix, formal, tc, tc2,
                    cArg, calls, ret, jsonPaths, opened, cli >>

\* parseJSON(Path, c)
Parse_parseJSON ==
    /\ AtStmt("parseJSON")
    /\ LET r == parseJSON(Path, IF cArg = "tc" THEN tc ELSE tc2)
       IN /\ IF cArg = "tc" THEN tc' = r.v /\ tc2' = tc2
                         ELSE tc2' = r.v /\ tc' = tc
          /\ opened' = opened \o r.open
          /\ IF r.panic
             THEN pc' = pc /\ status' = "panicked"
             ELSE Advance
    /\ jsonPaths' = Append(jsonPaths, Path)
    /\ trace' = Append(trace, "parseJSON")
    /\ UNCHANGED << Args, environ, fs, entryPath, tc0, Path, EnvPrefix, formal,
                    cArg, calls, ret, cli >>

\* flag.VisitAll(env)
Parse_env ==
    /\ AtStmt("env")
    /\ LET m == VisitAllEnv(Mem(Path, tc))
       IN Path' = m.Path /\ tc' = m.tc /\ tc2' = m.tc2
    /\ trace' = Append(trace, "env")
    /\ Advance
    /\ UNCHANGED << Args, environ, fs, entryPath, tc0, EnvPrefix, formal,
                    cArg, calls, ret, jsonPaths, opened, cli >>

\* flag.Parse()
Parse_flagParse ==
    /\ AtStmt("flag.Parse")
    /\ LET r == FlagParse(Tail(Args), Mem(Path, tc), cli)
       IN /\ Path' = r.mem.Path /\ tc' = r.mem.tc /\ tc2' = r.mem.tc2
          /\ cli' = r.cli
          /\ IF r.exit
             THEN pc' = pc /\ status' = "exited"
             ELSE Advance
    /\ trace' = Append(trace, "flag.Parse")
    /\ UNCHANGED << Args, environ, fs, entryPath, tc0, EnvPrefix, formal,
                    cArg, calls, ret, jsonPaths, opened >>

Next == Parse_scan \/ Parse_parseJSON \/ Parse_env \/ Parse_flagParse

\* v := reflect.ValueOf(c); expand(v), the last two statements of parseJSON,
\* on their own: c points to the value tc, of any type
ParseJSON_expand ==
    /\ status = "running" /\ pc = 0
    /\ LET r == expand(PtrTo(tc), ValueOfFlags)
       IN /\ tc' = r.v.e
          /\ status' = IF r.panic THEN "panicked" ELSE "returned"
    /\ trace' = Append(trace, "expand")
    /\ UNCHANGED << Args, environ, fs, entryPath, tc0, Path, EnvPrefix, formal,
                    tc2, cArg, calls, ret, pc, jsonPaths, opened, cli >>

NextExpand == ParseJSON_expand

(***************************************************************************)
(* The application, its command line, environment and files                *)
(***************************************************************************)

\* the longest command line, the program name aside
MaxArgs == 3

flag1 == <<"f", "l", "a", "g", "1">>
flag2 == <<"f", "l", "a", "g", "2">>
flag6 == <<"f", "l", "a", "g", "6">>
flagsix == <<"f", "l", "a", "g", "s", "i", "x">>
Flag1 == <<"F", "l", "a", "g", "1">>
Flag2 == <<"F", "l", "a", "g", "2">>
Flag6 == <<"F", "l", "a", "g", "6">>
FLAG1 == ToUpper(flag1)
FLAG6 == ToUpper(flag6)
X == <<"X">>
RefX == <<"$", "X">>
RefXBraces == <<"$", "{", "X", "}", "j">>

\* the default of the config flag: flag.StringVar(&Path, "config", "config.json5", ...)
DefaultPath == config \o <<".", "j", "s", "o", "n", "5">>

\* --name=value and --name
Opt(name, value) == <<"-", "-">> \o name \o <<"=">> \o value
Bare(name) == <<"-", "-">> \o name

\* type Config struct { Flag1 string; Flag2 string; Flag6 int `json:"flagsix"` }
\* after flag.StringVar(&tc.Flag1, "flag1", def1, ...) and
\* flag.IntVar(&tc.Flag6, "flag6", 1, ...): a flag's variable holds its default
Config(def1) ==
    StructV(<<Flag1, Flag2, Flag6>>, <<<<>>, <<>>, flagsix>>,
            <<StringV(def1), StringV(<<>>), IntV(1)>>)

\* type Config2 struct { Flag10 string }
Flag10 == <<"F", "l", "a", "g", "1", "0">>
flag10 == <<"f", "l", "a", "g", "1", "0">>
Config2 == StructV(<<Flag10>>, <<<<>>>>, <<StringV(<<>>)>>)

\* flag.CommandLine once the package and the application have registered
\* their flags
Registered(def1) ==
    (config :> FlagOf("string", <<>>, DefaultPath))
    @@ (flag1 :> FlagOf("string", Flag1, def1))
    @@ (flag6 :> FlagOf("int", Flag6, <<"1">>))

\* the sequences over S of length at most n
SeqsUpTo(S, n) == UNION {[1..k -> S] : k \in 0..n}

\* the functions that give some variables of names a value each from vals[name]
Environs(vals) ==
    UNION {{e \in [D -> UNION {vals[n] : n \in D}] : \A n \in D : e[n] \in vals[n]}
           : D \in SUBSET DOMAIN vals}

\* the objects that have some of the keys of vals, each with a value from
\* vals[key]
Objects(vals) == Environs(vals)

\* a file system with the same document under every name the documents
\* are looked for, but for m, which does not exist
Files(doc) ==
    (Cwd :> Dir)
    @@ [p \in {Abs(n) : n \in {<<"a">>, <<"b">>, <<"c">>, <<"/", "u">>, DefaultPath}} |-> doc]

\* The merge: a short command line, and every mix of environment, document
\* and default.
InitMerge ==
    /\ \E cfg \in {<<Opt(config, <<"a">>)>>, <<Opt(config, <<>>)>>,
                   <<Opt(config, <<"m">>)>>},
          f1 \in {<<>>, <<Opt(flag1, <<"c">>)>>},
          f6 \in {<<>>, <<Opt(flag6, <<"8">>)>>, <<Opt(flag6, <<"q">>)>>} :
            Args = <<<<"p">>>> \o cfg \o f1 \o f6
    /\ environ \in Environs((FLAG1 :> {<<>>, RefX})
                            @@ (FLAG6 :> {<<"7">>, <<"q">>})
                            @@ (X :> {<<"/", "u">>}))
    /\ \E doc \in {File(FALSE, <<>>),
                   File(TRUE, (flag1 :> StringV(<<"j">>)) @@ (flagsix :> StringV(<<"s">>)))}
                  \cup {File(TRUE, o) :
                         o \in Objects((flag1 :> {StringV(<<"j">>),
                                                   StringV(RefX \o <<"/", "d">>)})
                                       @@ (flagsix :> {IntV(6)})
                                       @@ (flag2 :> {StringV(<<"$", "{", "X", "}", "j">>)}))} :
            fs = Files(doc)
    /\ Path = DefaultPath
    /\ \E def1 \in {<<"d">>, RefX} :
            formal = Registered(def1) /\ tc = Config(def1)

\* The path: every command line of up to MaxArgs arguments, and a Path
\* the application may have assigned, one of them through a variable that
\* is set or not.
InitPath ==
    /\ \E a \in SeqsUpTo({Opt(config, <<"a">>), DashConfigEq \o <<"b">>,
                          DashDashConfig, DashConfig, <<"c">>,
                          Opt(flag1, <<"c">>), Bare(flag1), <<"-", "-">>}, MaxArgs) :
            Args = <<<<"p">>>> \o a
    /\ \/ Path \in {DefaultPath, <<>>, <<"b">>} /\ environ = <<>>
       \/ Path = RefX /\ environ \in Environs(X :> {<<"/", "u">>})
    /\ fs = Files(File(TRUE, flag1 :> StringV(<<"j">>)))
    /\ formal = Registered(<<"d">>) /\ tc = Config(<<"d">>)

\* EnvPrefix = "APP_", and the names of variables that flag1 may be looked
\* up under
AppPrefix == <<"A", "P", "P", "_">>
APP_FLAG1 == <<"A", "P", "P", "_", "F", "L", "A", "G", "1">>

\* The names of environment variables: EnvPrefix left empty or assigned
\* before Parse is called, and variables named after flag1 in capitals, in
\* small letters and with the prefix.
InitEnvName ==
    /\ \E cfg \in {<<Opt(config, <<"a">>)>>, <<Opt(config, <<>>)>>},
          f1 \in {<<>>, <<Opt(flag1, <<"c">>)>>} :
            Args = <<<<"p">>>> \o cfg \o f1
    /\ EnvPrefix \in {<<>>, AppPrefix}
    /\ environ \in Environs((FLAG1 :> {<<"e">>})
                            @@ (flag1 :> {<<"l">>})
                            @@ (APP_FLAG1 :> {<<"f">>, <<>>}))
    /\ fs = Files(File(TRUE, flag1 :> StringV(<<"j">>)))
    /\ Path = DefaultPath
    /\ formal = Registered(<<"d">>) /\ tc = Config(<<"d">>)

hidden == <<"h", "i", "d", "d", "e", "n">>
other == <<"o", "t", "h", "e", "r">>

\* type Config struct { Flag1 string; Flag2 string; Flag6 int `json:"flagsix"`;
\* hidden T }, with v of type T in the field that is not exported
ConfigHidden(def1, v) ==
    StructV(<<Flag1, Flag2, Flag6, hidden>>, <<<<>>, <<>>, flagsix, <<>>>>,
            <<StringV(def1), StringV(<<>>), IntV(1), v>>)

\* The fields: a config struct with or without a field that is not
\* exported, and documents with members for a field that has no flag, for
\* the field that is not exported and for no field at all.
InitFields ==
    /\ \E cfg \in {<<Opt(config, <<"a">>)>>, <<Opt(config, <<>>)>>} :
            Args = <<<<"p">>>> \o cfg
    /\ environ \in Environs(X :> {<<"/", "u">>})
    /\ \E o \in Objects((flag2 :> {StringV(RefXBraces)})
                         @@ (other :> {StringV(<<"v">>)})
                         @@ (hidden :> {StringV(<<"k">>)})) :
            fs = Files(File(TRUE, o))
    /\ Path = DefaultPath
    /\ formal = Registered(<<"d">>)
    /\ tc \in {Config(<<"d">>), ConfigHidden(<<"d">>, StringV(<<"h">>)),
               ConfigHidden(<<"d">>, IntV(4))}

\* References in overrides: an environment variable and command-line
\* values, with = and with a space, that hold a $NAME reference to a
\* variable that is set or not.
InitVerbatim ==
    /\ \E cfg \in {<<Opt(config, <<"a">>)>>, <<Opt(config, <<>>)>>},
          f1 \in {<<>>, <<Opt(flag1, RefX)>>, <<Bare(flag1), RefXBraces>>} :
            Args = <<<<"p">>>> \o cfg \o f1
    /\ environ \in Environs((FLAG1 :> {RefX, RefXBraces})
                            @@ (X :> {<<"/", "u">>}))
    /\ fs = Files(File(TRUE, flag1 :> StringV(RefX \o <<"/", "d">>)))
    /\ Path = DefaultPath
    /\ \E def1 \in {<<"d">>, RefX} :
            formal = Registered(def1) /\ tc = Config(def1)

Init ==
    /\ \/ (InitMerge \/ InitPath \/ InitFields \/ InitVerbatim) /\ EnvPrefix = <<>>
       \/ InitEnvName
    /\ tc2 = Config2 /\ cArg = "tc" /\ calls = 1 /\ ret = <<>>
    /\ entryPath = Path
    /\ tc0 = tc
    /\ pc = 1
    /\ status = "running"
    /\ trace = <<>>
    /\ jsonPaths = <<>>
    /\ opened = <<>>
    /\ cli = <<>>

Spec == Init /\ [][Next]_vars

\* the longest slice of a nested value, and the depth of the other values
MaxItems == 2
MaxDepth == 2

Items == <<"I", "t", "e", "m", "s">>
Name == <<"N", "a", "m", "e">>

\* type Item struct { P *string; N int }
Item(p, n) == StructV(<<<<"P">>, <<"N">>>>, <<<<>>, <<>>>>, <<p, IntV(n)>>)
\* type Nested struct { Items []Item; Name string; N int }
Nested(items, name, n) ==
    StructV(<<Items, Name, <<"N">>>>, <<<<>>, <<>>, <<>>>>,
            <<SliceV(items), StringV(name), IntV(n)>>)

\* structs that hold a slice of up to MaxItems structs, each with a pointer
\* to a string, or nil, and a number
NestedValues ==
    {Nested(items, name, 5) :
        items \in SeqsUpTo({Item(p, 3) : p \in {NilPtr, PtrTo(StringV(RefX)),
                                                PtrTo(StringV(RefXBraces))}},
                           MaxItems),
        name \in {RefX, <<"b">>}}

\* the values without elements
Leaves == {StringV(RefX), StringV(<<"a">>), IntV(3), NilPtr}

\* the values of depth up to d: a pointer to, a slice of, a map of and a
\* struct of a value, the field of the struct exported or not; slices of two
\* leaves; the empty slice and map
RECURSIVE Trees(_)
Trees(d) ==
    IF d = 0 THEN Leaves
    ELSE LET T == Trees(d - 1)
         IN T \cup {PtrTo(t) : t \in T}
              \cup {SliceV(<<t>>) : t \in T}
              \cup {MapV(<<RefX>>, <<t>>) : t \in T}
              \cup {StructV(<<<<"F">>>>, <<<<>>>>, <<t>>) : t \in T}
              \cup {StructV(<<<<"f">>>>, <<<<>>>>, <<t>>) : t \in T}
              \cup {SliceV(<<t, u>>) : t, u \in Leaves}
              \cup {SliceV(<<>>), MapV(<<>>, <<>>)}

\* expand on its own: a value, and an environment in which X is not set,
\* set to a path, or set to a reference to Y
InitExpand ==
    /\ tc \in NestedValues \cup Trees(MaxDepth)
    /\ environ \in {<<>>, X :> <<"/", "u">>, (X :> <<"$", "Y">>) @@ (<<"Y">> :> <<"z">>)}
    /\ tc0 = tc
    /\ pc = 0
    /\ status = "running"
    /\ Args = <<<<"p">>>> /\ fs = <<>> /\ formal = <<>>
    /\ Path = <<>> /\ entryPath = <<>> /\ EnvPrefix = <<>>
    /\ tc2 = Config2 /\ cArg = "tc" /\ calls = 1 /\ ret = <<>>
    /\ trace = <<>> /\ jsonPaths = <<>> /\ opened = <<>> /\ cli = <<>>

SpecExpand == InitExpand /\ [][NextExpand]_vars

\* the calls of Parse the application makes
MaxCalls == 2

\* Parse(c) is called after a call of Parse has returned, c pointing to obj
ParseCall(obj) ==
    /\ status = "returned" /\ calls < MaxCalls
    /\ cArg' = obj
    /\ calls' = calls + 1
    /\ ret' = [tc |-> tc, Path |-> Path, jsonPaths |-> jsonPaths,
               cArg |-> cArg, EnvPrefix |-> EnvPrefix]
    /\ entryPath' = Path
    /\ tc0' = IF obj = "tc" THEN tc ELSE tc2
    /\ pc' = 1 /\ status' = "running"
    /\ trace' = <<>> /\ jsonPaths' = <<>> /\ opened' = <<>> /\ cli' = <<>>

\* Parse(&tc) once more, with nothing changed in between
flags_ParseAgain ==
    /\ ParseCall("tc")
    /\ UNCHANGED << Args, environ, fs, Path, EnvPrefix, formal, tc, tc2 >>

\* EnvPrefix = "APP_"; flag.StringVar(&tc2.Flag10, "flag10", "", ...);
\* Parse(&tc2)
flags_ParseSecond ==
    /\ EnvPrefix # AppPrefix
    /\ ParseCall("tc2")
    /\ EnvPrefix' = AppPrefix
    /\ formal' = formal @@ (flag10 :> FlagOf2("string", Flag10, <<>>))
    /\ tc2' = WithField(tc2, Flag10, StringV(<<>>))
    /\ UNCHANGED << Args, environ, fs, Path, tc >>

NextAgain == Next \/ flags_ParseAgain \/ flags_ParseSecond

CONFIG == ToUpper(config)
APP_FLAG6 == AppPrefix \o FLAG6
APP_FLAG10 == AppPrefix \o ToUpper(flag10)

\* Parse more than once: a command line with the config option in its
\* forms, a variable X that is not set, set to a path or set to a reference
\* to Y, variables for the flags under both prefixes and for the config
\* flag, and a document at b that is not the one at a and at the default
\* path.
InitAgain ==
    /\ \E a \in {<<>>, <<Opt(config, <<"a">>)>>, <<Opt(config, <<>>)>>,
                  <<Opt(config, <<"a">>), DashConfigEq \o <<"b">>>>,
                  <<DashDashConfig, Opt(flag1, <<"c">>)>>,
                  <<Opt(flag1, <<"c">>)>>,
                  <<Opt(config, <<"a">>), Opt(flag1, <<"c">>)>>} :
            Args = <<<<"p">>>> \o a
    /\ \E x \in {<<>>, X :> <<"/", "u">>, (X :> <<"$", "Y">>) @@ (<<"Y">> :> <<"z">>)},
          e \in Environs((FLAG1 :> {RefX}) @@ (APP_FLAG1 :> {<<"f">>})
                         @@ (APP_FLAG6 :> {<<"7">>, <<"q">>})
                         @@ (APP_FLAG10 :> {<<"t">>})
                         @@ (CONFIG :> {<<"b">>})) :
            environ = x @@ e
    /\ \E o \in Objects((flag1 :> {StringV(<<"j">>)}) @@ (flag2 :> {StringV(RefX)})) :
            fs = (Cwd :> Dir)
                 @@ (Abs(<<"a">>) :> File(TRUE, o))
                 @@ (Abs(DefaultPath) :> File(TRUE, o))
                 @@ (Abs(<<"b">>) :> File(TRUE, (flag1 :> StringV(<<"k">>))
                                               @@ (flag10 :> StringV(RefX))))
    /\ Path = DefaultPath
    /\ EnvPrefix = <<>>
    /\ \E def1 \in {<<"d">>, RefX} :
            formal = Registered(def1) /\ tc = Config(def1)
    /\ tc2 = Config2 /\ cArg = "tc" /\ calls = 1 /\ ret = <<>>
    /\ entryPath = Path
    /\ tc0 = tc
    /\ pc = 1
    /\ status = "running"
    /\ trace = <<>> /\ jsonPaths = <<>> /\ opened = <<>> /\ cli = <<>>

SpecAgain == InitAgain /\ [][NextAgain]_vars

(***************************************************************************)
(* Properties                                                              *)
(***************************************************************************)

Returned == status = "returned"

\* the flags the application registered: those bound to a field of tc
FieldFlags == {n \in DOMAIN formal : formal[n].target # <<>>}

\* what the variable of the flag named n holds
Stored(n) == IF formal[n].target = <<>> THEN StringV(Path)
             ELSE Field(tc, formal[n].target)

\* the string s as a value of the kind of the flag named n
AsKind(n, s) == IF formal[n].kind = "int" THEN IntV(ParseInt(s).n) ELSE StringV(s)

\* the string s is a value of the kind of the flag named n
Converts(n, s) == formal[n].kind = "int" => ~ParseInt(s).err

\* the environment variable of the flag named n
EnvOf(n) == Getenv(EnvPrefix \o ToUpper(n))

\* a document was loaded: parseJSON was called with a path that is not empty
\* and did not panic
DocLoaded == /\ jsonPaths # <<>> /\ jsonPaths[1] # <<>>
             /\ status # "panicked"
\* the members of the document that was loaded
DocObj == fs[opened[1]].obj
\* the members of the loaded document that go to the field named f
DocKeys(f) == IF DocLoaded
              THEN {key \in DOMAIN DocObj : JSONField(tc, key) = FieldIndex(tc, f)}
              ELSE {}
\* a document value as expand leaves it
Expanded(x) == IF x.k = "string" THEN StringV(ExpandEnv(x.s)) ELSE x

\* every argument is of the form -name=value or --name=value, so that each
\* is a flag for flag.Parse
AllEqForm == \A i \in 2..Len(Args) :
                /\ Len(Args[i]) >= 2 /\ Args[i][1] = "-"
                /\ EqualsAt(Args[i], 3) # 0
\* the arguments that give the flag named n a value in the = form
EqArgs(n) == {i \in 2..Len(Args) : \/ HasPrefix(Args[i], <<"-", "-">> \o n \o <<"=">>)
                                   \/ HasPrefix(Args[i], <<"-">> \o n \o <<"=">>)}
EqValue(i) == From(Args[i], EqualsAt(Args[i], 1) + 1)
Last(S) == CHOOSE i \in S : \A j \in S : j <= i
First(S) == CHOOSE i \in S : \A j \in S : i <= j

\* C1: when Parse has returned, every flag that flag.Parse took a value
\* for from the command line holds that value, as its kind stores it,
\* whatever the document, the environment and the default are; on a command
\* line of -name=value arguments that value is the one of the last argument
\* naming the flag.
C1_CLIWins ==
    Returned =>
        /\ \A n \in DOMAIN cli : Stored(n) = AsKind(n, cli[n])
        /\ AllEqForm =>
              \A n \in DOMAIN formal :
                  EqArgs(n) # {} => Stored(n) = AsKind(n, EqValue(Last(EqArgs(n))))

\* C1 happens: flag1 is given on the command line, set in the environment,
\* present in the document and has a default, all four different.
C1_Witness ==
    /\ Returned
    /\ flag1 \in DOMAIN cli /\ cli[flag1] = <<"c">>
    /\ EnvOf(flag1) = RefX
    /\ DocKeys(Flag1) # {}
    /\ formal[flag1].DefValue = <<"d">>
    /\ Field(tc, Flag1) = StringV(<<"c">>)

\* the flag named n has an environment override and a member of the loaded
\* document, and is not given on the command line
EnvOverDoc(n) == /\ DocKeys(formal[n].target) # {}
                 /\ EnvOf(n) # <<>>
                 /\ n \notin DOMAIN cli

\* C2 as the claim states it: when Parse has returned, a registered field
\* that is present in the document, has a non-empty environment variable
\* and is not given on the command line holds the environment value,
\* converted to the kind of the field.
C2_EnvOverDocument ==
    Returned =>
        \A n \in FieldFlags :
            EnvOverDoc(n) => /\ Converts(n, EnvOf(n))
                             /\ Stored(n) = AsKind(n, EnvOf(n))

\* C3: when Parse has returned, every field of the config struct that is
\* present in the loaded document, and whose flag, if it has one, has no
\* environment override and is not given on the command line, holds the
\* document value with its environment references expanded; "$X/d" with
\* X=/u gives "/u/d".
C3_DocumentExpanded ==
    Returned =>
        \A i \in 1..Len(tc.names) :
            LET f == tc.names[i]
                flags == {n \in FieldFlags : formal[n].target = f}
            IN (/\ DocKeys(f) # {}
                /\ \A n \in flags : EnvOf(n) = <<>> /\ n \notin DOMAIN cli)
               => /\ \E key \in DocKeys(f) : tc.e[i] = Expanded(DocObj[key])
                  /\ \A key \in DocKeys(f) :
                        (DocObj[key] = StringV(RefX \o <<"/", "d">>) /\ Getenv(X) = <<"/", "u">>)
                        => tc.e[i] = StringV(<<"/", "u", "/", "d">>)

\* C3 happens: the document gives flag1 the value "$X/d" while flag1 has a
\* default and neither an environment override nor a command-line value.
C3_Witness ==
    /\ Returned
    /\ DocKeys(Flag1) # {}
    /\ \E key \in DocKeys(Flag1) : DocObj[key] = StringV(RefX \o <<"/", "d">>)
    /\ Getenv(X) = <<"/", "u">>
    /\ EnvOf(flag1) = <<>> /\ flag1 \notin DOMAIN cli
    /\ formal[flag1].DefValue = <<"d">>
    /\ Field(tc, Flag1) = StringV(<<"/", "u", "/", "d">>)

\* the flag named n is set by nothing but its default
OnlyDefault(n) == /\ DocKeys(formal[n].target) = {}
                  /\ EnvOf(n) = <<>>
                  /\ n \notin DOMAIN cli

\* C4 as the claim states it: when Parse has returned, a registered field
\* that no document member, environment variable or command-line argument
\* sets holds the default given at registration.
C4_DefaultKept ==
    Returned =>
        \A n \in FieldFlags : OnlyDefault(n) => Stored(n) = AsKind(n, formal[n].DefValue)

\* C4 amended: when Parse has returned, a registered field that no document
\* member, environment variable or command-line argument sets holds the
\* default given at registration when no document was loaded (the path is
\* empty), and the default with its environment references expanded when
\* one was.
C4_DefaultKeptOrExpanded ==
    Returned =>
        \A n \in FieldFlags :
            OnlyDefault(n) =>
                Stored(n) = IF DocLoaded THEN Expanded(AsKind(n, formal[n].DefValue))
                            ELSE AsKind(n, formal[n].DefValue)

\* C4 happens: the path is empty and no document was loaded; flag6 holds
\* its default 1 and flag1 its default "$X", with X set.
C4_Witness ==
    /\ Returned
    /\ OnlyDefault(flag6) /\ OnlyDefault(flag1)
    /\ ~DocLoaded
    /\ formal[flag1].DefValue = RefX /\ Getenv(X) = <<"/", "u">>
    /\ Field(tc, Flag1) = StringV(RefX)
    /\ Field(tc, Flag6) = IntV(1)

\* the string s contains a reference to an environment variable
HasRef(s) == ExpandEnv(s) # s \/ \E i \in 1..Len(s) : s[i] = "$"

\* C5 as the claim states it: when Parse has returned, a registered string
\* field whose default contains an environment reference and that nothing
\* else sets holds the expanded default.
C5_DefaultExpanded ==
    Returned =>
        \A n \in FieldFlags :
            (formal[n].kind = "string" /\ HasRef(formal[n].DefValue) /\ OnlyDefault(n))
            => Stored(n) = StringV(ExpandEnv(formal[n].DefValue))

\* C5 amended: when Parse has returned from loading a document, a registered
\* string field whose default contains an environment reference and that
\* nothing else sets holds the expanded default; the default "$X" with
\* X=/u gives "/u".
C5_DefaultExpandedWithDocument ==
    (Returned /\ DocLoaded) =>
        \A n \in FieldFlags :
            (formal[n].kind = "string" /\ HasRef(formal[n].DefValue) /\ OnlyDefault(n))
            => /\ Stored(n) = StringV(ExpandEnv(formal[n].DefValue))
               /\ (formal[n].DefValue = RefX /\ Getenv(X) = <<"/", "u">>)
                    => Stored(n).s = <<"/", "u">>

\* C5 happens: flag1 has the default "$X", X is /u, a document without
\* flag1 was loaded, and Flag1 is "/u".
C5_Witness ==
    /\ Returned /\ DocLoaded
    /\ formal[flag1].DefValue = RefX /\ OnlyDefault(flag1)
    /\ Getenv(X) = <<"/", "u">>
    /\ Field(tc, Flag1) = StringV(<<"/", "u">>)

\* the statements of Parse in the order the claims give them
FourSteps == <<"scan", "parseJSON", "env", "flag.Parse">>

\* C6: the steps a call of Parse has run are at every moment the first
\* ones of: argument scan, document load, environment binding, flag.Parse,
\* each once; when Parse returns it has run all four.
C6_StepOrder ==
    /\ Len(trace) <= Len(FourSteps)
    /\ trace = SubSeq(FourSteps, 1, Len(trace))
    /\ Returned => trace = FourSteps

\* C6 happens: Parse has returned after loading a document, binding an
\* environment variable and taking a flag from the command line.
C6_Witness ==
    /\ Returned /\ DocLoaded
    /\ EnvOf(flag6) = <<"7">>
    /\ flag1 \in DOMAIN cli
    /\ trace = FourSteps

\* the arguments that are a config option with a value: -config or
\* --config before an argument that does not begin with a dash, and
\* -config=V or --config=V
ConfigOptions ==
    {i \in 2..Len(Args) :
        \/ /\ Args[i] \in {DashDashConfig, DashConfig}
           /\ i + 1 <= Len(Args)
           /\ ~HasPrefix(Args[i + 1], <<"-">>)
        \/ HasPrefix(Args[i], DashDashConfigEq)
        \/ HasPrefix(Args[i], DashConfigEq)}
\* the value V of the config option at i
ConfigValue(i) ==
    IF Args[i] \in {DashDashConfig, DashConfig} THEN Args[i + 1]
    ELSE From(Args[i], EqualsAt(Args[i], 1) + 1)

\* C7: when the command line has a config option with a value, in any of
\* the four forms, parseJSON is called with the value of the first one and,
\* unless that is empty, opens the file this value names.
C7_FirstConfigOptionWins ==
    (jsonPaths # <<>> /\ ConfigOptions # {}) =>
        LET V == ConfigValue(First(ConfigOptions))
        IN /\ jsonPaths[1] = V
           /\ V # <<>> => opened # <<>> /\ opened[1] = Abs(ExpandEnv(V))

\* C7 happens: two config options with different values, the first in the
\* form with a space; the document of the first was loaded.
C7_Witness ==
    /\ Returned
    /\ Cardinality(ConfigOptions) >= 2
    /\ Args[First(ConfigOptions)] \in {DashDashConfig, DashConfig}
    /\ ConfigValue(First(ConfigOptions)) # ConfigValue(Last(ConfigOptions))
    /\ opened = <<Abs(ConfigValue(First(ConfigOptions)))>>

\* no argument is a config option, with or without a value
NoConfigOption ==
    \A i \in 2..Len(Args) :
        /\ Args[i] \notin {DashDashConfig, DashConfig}
        /\ ~HasPrefix(Args[i], DashDashConfigEq)
        /\ ~HasPrefix(Args[i], DashConfigEq)

\* C8: without a config option on the command line parseJSON is called with
\* the Path that Parse found, which is config.json5 when the application
\* assigned none, and opens the file it names; with a config option the
\* value of the option is taken, whatever Path the application assigned.
C8_PathFallback ==
    jsonPaths # <<>> =>
        /\ NoConfigOption =>
              /\ jsonPaths[1] = entryPath
              /\ entryPath = formal[config].DefValue => jsonPaths[1] = DefaultPath
              /\ entryPath # <<>> => opened # <<>> /\ opened[1] = Abs(ExpandEnv(entryPath))
        /\ (ConfigOptions # {} /\ entryPath # formal[config].DefValue) =>
              jsonPaths[1] = ConfigValue(First(ConfigOptions))

\* C8 happens: the application assigned Path = "b", the command line has
\* arguments and no config option, and the document b was loaded.
C8_Witness ==
    /\ Returned
    /\ Len(Args) > 1 /\ NoConfigOption
    /\ entryPath = <<"b">>
    /\ jsonPaths = <<<<"b">>>>
    /\ opened = <<Abs(<<"b">>)>>

\* C9: with an empty Path the call of parseJSON changes nothing in the
\* config struct, opens no file and does not panic, and Parse goes on to the
\* environment binding; when the call of Parse is over it has run the
\* environment binding and flag.Parse once each.
C9_EmptyPathNoOp ==
    /\ [][(AtStmt("parseJSON") /\ Path = <<>>) =>
            /\ tc' = tc
            /\ opened' = opened
            /\ status' = "running" /\ ParseBody[pc'] = "env"]_vars
    /\ []((jsonPaths = <<<<>>>> /\ status \in {"returned", "exited"}) =>
            (opened = <<>> /\ trace = FourSteps))

\* C9 happens: Parse has returned from an empty path, with the environment
\* value in Flag1 and the empty value of --config= in Path.
C9_Witness ==
    /\ Returned
    /\ jsonPaths = <<<<>>>> /\ opened = <<>>
    /\ EnvOf(flag1) = RefX /\ Field(tc, Flag1) = StringV(RefX)
    /\ config \in DOMAIN cli /\ Path = <<>>

\* parseJSON was called with a path that is not empty and names no file, or
\* a directory, or a file whose text is not well formed or has a member that
\* does not fit its field
Unloadable ==
    /\ jsonPaths # <<>> /\ jsonPaths[1] # <<>>
    /\ LET abs == Abs(ExpandEnv(jsonPaths[1]))
       IN \/ abs \notin DOMAIN fs
          \/ fs[abs].kind = "dir"
          \/ /\ fs[abs].kind = "file"
             /\ \/ ~fs[abs].syntax
                \/ \E key \in DOMAIN fs[abs].obj :
                      /\ JSONField(tc, key) # 0
                      /\ fs[abs].obj[key].k # tc.e[JSONField(tc, key)].k

\* C10: when the path is not empty and the file cannot be opened or decoded,
\* Parse panics in parseJSON: the environment binding and flag.Parse do not
\* run and Parse does not return.
C10_DocumentFailureAborts ==
    Unloadable => (status = "panicked" /\ trace = <<"scan", "parseJSON">>)

\* C10 happens: --config=m names a file that does not exist, and Parse has
\* panicked with the environment and the command line unapplied.
C10_Witness ==
    /\ status = "panicked"
    /\ jsonPaths = <<<<"m">>>>
    /\ Abs(<<"m">>) \notin DOMAIN fs
    /\ EnvOf(flag1) = RefX /\ Field(tc, Flag1) # StringV(RefX)
    /\ cli = <<>>

\* the steps Parse has run, as a set
Ran == {trace[i] : i \in 1..Len(trace)}

\* the flag named n is numeric and its environment variable is set to a
\* text that is no number
BadEnv(n) == /\ formal[n].kind = "int"
             /\ EnvOf(n) # <<>>
             /\ ~Converts(n, EnvOf(n))

\* C11 as the claim states it: when the environment variable of a registered
\* numeric field is not empty and does not parse as a number, Parse fails in
\* the environment binding: it neither goes on to flag.Parse nor returns.
C11_EnvConversionFatal ==
    (\E n \in FieldFlags : BadEnv(n)) =>
        (status # "returned" /\ "flag.Parse" \notin Ran)

\* the name of the environment variable of the flag named n
EnvName(n) == EnvPrefix \o ToUpper(n)
\* the environment variable of the flag named n is set, to the empty string
SetEmpty(n) == EnvName(n) \in DOMAIN environ /\ environ[EnvName(n)] = <<>>
\* the environment variable of the flag named n is not set
Unset(n) == EnvName(n) \notin DOMAIN environ

\* C12: the environment binding leaves the variable of every flag whose
\* environment variable is set to the empty string as it is, as it does for
\* a flag whose variable is not set; when Parse has returned, a field whose
\* flag has an empty environment variable and is not given on the command
\* line holds the (expanded) document value when the document has one, and
\* the default otherwise.
C12_EmptyEnvIsUnset ==
    /\ [][AtStmt("env") =>
            \A n \in DOMAIN formal :
                (SetEmpty(n) \/ Unset(n)) => Stored(n)' = Stored(n)]_vars
    /\ [](Returned =>
            \A n \in FieldFlags :
                (SetEmpty(n) /\ n \notin DOMAIN cli) =>
                    LET f == formal[n].target
                        def == AsKind(n, formal[n].DefValue)
                    IN IF DocKeys(f) # {}
                       THEN \E key \in DocKeys(f) : Stored(n) = Expanded(DocObj[key])
                       ELSE Stored(n) = IF DocLoaded THEN Expanded(def) ELSE def)

\* C12 happens: FLAG1 is set to the empty string, the document gives flag1
\* the value "j", the command line does not give flag1, and Parse has
\* returned with Flag1 = "j".
C12_Witness ==
    /\ Returned
    /\ SetEmpty(flag1) /\ flag1 \notin DOMAIN cli
    /\ DocKeys(Flag1) # {} /\ \E key \in DocKeys(Flag1) : DocObj[key] = StringV(<<"j">>)
    /\ formal[flag1].DefValue = <<"d">>
    /\ Field(tc, Flag1) = StringV(<<"j">>)

\* the value the flag named n has from the document or from its default,
\* when neither the environment nor the command line gives it one
BelowEnv(n) ==
    LET f == formal[n].target
        def == AsKind(n, formal[n].DefValue)
    IN IF DocKeys(f) # {}
       THEN {Expanded(DocObj[key]) : key \in DocKeys(f)}
       ELSE {IF DocLoaded THEN Expanded(def) ELSE def}

\* C13: when Parse has returned, a registered field that is not given on
\* the command line holds the value of the variable named EnvPrefix followed
\* by the flag name in capitals when that variable is set, not empty and of
\* the field's kind, and the document value or the default when it is not
\* set, whatever other variables are; with EnvPrefix = "APP_", flag1 takes
\* the value of APP_FLAG1 and is not affected by FLAG1.
C13_EnvNameIsPrefixUpper ==
    Returned =>
        /\ \A n \in FieldFlags \ DOMAIN cli :
              LET name == EnvPrefix \o ToUpper(n)
              IN /\ (name \in DOMAIN environ /\ environ[name] # <<>>
                        /\ Converts(n, environ[name]))
                     => Stored(n) = AsKind(n, environ[name])
                 /\ (name \notin DOMAIN environ) => Stored(n) \in BelowEnv(n)
        /\ (EnvPrefix = AppPrefix /\ flag1 \notin DOMAIN cli) =>
              /\ (APP_FLAG1 \in DOMAIN environ /\ environ[APP_FLAG1] # <<>>)
                    => Field(tc, Flag1) = StringV(environ[APP_FLAG1])
              /\ (APP_FLAG1 \notin DOMAIN environ /\ FLAG1 \in DOMAIN environ)
                    => /\ Field(tc, Flag1) # StringV(environ[FLAG1])
                       /\ Field(tc, Flag1) \in BelowEnv(flag1)

\* C13 happens: EnvPrefix is "APP_", FLAG1 and APP_FLAG1 are both set, to
\* different values, and Parse has returned with Flag1 = "f", the value of
\* APP_FLAG1.
C13_Witness ==
    /\ Returned
    /\ EnvPrefix = AppPrefix
    /\ FLAG1 \in DOMAIN environ /\ environ[FLAG1] = <<"e">>
    /\ APP_FLAG1 \in DOMAIN environ /\ environ[APP_FLAG1] = <<"f">>
    /\ flag1 \notin DOMAIN cli
    /\ DocKeys(Flag1) # {}
    /\ Field(tc, Flag1) = StringV(<<"f">>)

\* C14 as the claim states it: when Parse has returned with no prefix, a
\* flag1 that is not given on the command line holds the value of the
\* variable FLAG1 when that is set and not empty, and the value of the
\* variable flag1 when only that one is.
C14_EnvNameAnyCase ==
    (Returned /\ EnvPrefix = <<>> /\ flag1 \notin DOMAIN cli) =>
        /\ (FLAG1 \in DOMAIN environ /\ environ[FLAG1] # <<>>)
              => Field(tc, Flag1) = StringV(environ[FLAG1])
        /\ (FLAG1 \notin DOMAIN environ /\ flag1 \in DOMAIN environ
               /\ environ[flag1] # <<>>)
              => Field(tc, Flag1) = StringV(environ[flag1])

\* expand has been called and is over
ExpandOver == "expand" \in Ran /\ status # "running"
\* the value handed to expand is a struct with a slice of structs
IsNested(v) == v.k = "struct" /\ v.names = <<Items, Name, <<"N">>>>

\* C15: expand on a struct that holds a slice of structs that hold pointers
\* to strings returns normally; it leaves every string, at the top and
\* behind the pointers in the slice, replaced by its expansion, and the
\* rest as it was: the numbers, the nil pointers, the length of the slice
\* and the fields of the structs. "$X" behind a pointer becomes "/u" when X
\* is /u.
C15_NestedExpanded ==
    (ExpandOver /\ IsNested(tc0)) =>
        /\ status = "returned"
        /\ tc.k = "struct" /\ tc.names = tc0.names /\ tc.tags = tc0.tags
        /\ Field(tc, Name) = StringV(ExpandEnv(Field(tc0, Name).s))
        /\ Field(tc, <<"N">>) = Field(tc0, <<"N">>)
        /\ LET items == Field(tc, Items).e
               items0 == Field(tc0, Items).e
           IN /\ Field(tc, Items).k = "slice"
              /\ Len(items) = Len(items0)
              /\ \A i \in 1..Len(items0) :
                    LET p == Field(items[i], <<"P">>)
                        p0 == Field(items0[i], <<"P">>)
                    IN /\ items[i].k = "struct" /\ items[i].names = items0[i].names
                       /\ Field(items[i], <<"N">>) = Field(items0[i], <<"N">>)
                       /\ p0 = NilPtr => p = NilPtr
                       /\ p0 # NilPtr => p = PtrTo(StringV(ExpandEnv(p0.e.s)))
                       /\ (p0 = PtrTo(StringV(RefX)) /\ Getenv(X) = <<"/", "u">>)
                             => p.e.s = <<"/", "u">>

\* C15 happens: expand has returned from a struct whose slice holds a
\* struct with a nil pointer and one with a pointer to "$X", X being /u.
C15_Witness ==
    /\ ExpandOver /\ status = "returned" /\ IsNested(tc0)
    /\ Getenv(X) = <<"/", "u">>
    /\ Field(tc0, Name).s = RefX /\ Field(tc, Name).s = <<"/", "u">>
    /\ LET items == Field(tc, Items).e
           items0 == Field(tc0, Items).e
       IN /\ Len(items0) = 2
          /\ Field(items0[1], <<"P">>) = NilPtr /\ Field(items[1], <<"P">>) = NilPtr
          /\ Field(items0[2], <<"P">>) = PtrTo(StringV(RefX))
          /\ Field(items[2], <<"P">>) = PtrTo(StringV(<<"/", "u">>))
          /\ Field(items[2], <<"N">>) = IntV(3)

\* the fields of the config struct that no flag is bound to
Unregistered == {i \in 1..Len(tc.names) :
                    \A n \in DOMAIN formal : formal[n].target # tc.names[i]}
\* the document without the members that match no exported field of v
Known(file, v) ==
    File(file.syntax, [key \in {k \in DOMAIN file.obj : JSONField(v, k) # 0} |->
                          file.obj[key]])
\* the document has a member that matches no exported field of v
HasUnknown(file, v) == \E key \in DOMAIN file.obj : JSONField(v, key) = 0

\* C16: when Parse has returned, a field that no flag is bound to holds the
\* expanded document value when the document has a member for it, and the
\* value it had, the zero value, when it has none; decoding a document gives
\* the same fields, and fails or not, as decoding it without the members
\* that match no exported field.
C16_UnregisteredFields ==
    /\ Returned =>
          \A i \in Unregistered :
              IF DocKeys(tc.names[i]) # {}
              THEN \E key \in DocKeys(tc.names[i]) : tc.e[i] = Expanded(DocObj[key])
              ELSE /\ tc.e[i] = tc0.e[i]
                   /\ tc.names[i] = Flag2 => tc.e[i] = StringV(<<>>)
    /\ (opened # <<>> /\ opened[1] \in DOMAIN fs /\ fs[opened[1]].kind = "file") =>
          LET doc == fs[opened[1]]
          IN /\ Decode(doc, tc0) = Decode(Known(doc, tc0), tc0)
             /\ (Returned /\ HasUnknown(doc, tc0)) =>
                    \A i \in 1..Len(tc.names) :
                        ~IsExported(tc.names[i]) => tc.e[i] = tc0.e[i]

\* C16 happens: the document has members for Flag2, which has no flag, for a
\* key that matches no field and for the name of the field that is not
\* exported; Parse has returned with Flag2 expanded and the other field as
\* it was.
C16_Witness ==
    /\ Returned /\ DocLoaded
    /\ {flag2, other, hidden} \subseteq DOMAIN DocObj
    /\ Getenv(X) = <<"/", "u">>
    /\ Field(tc, Flag2) = StringV(<<"/", "u", "j">>)
    /\ hidden \in {tc.names[i] : i \in 1..Len(tc.names)}
    /\ Field(tc, hidden) = IntV(4)

\* the fields of the config struct that are not exported
Hidden == {i \in 1..Len(tc0.names) : ~IsExported(tc0.names[i])}

\* C18 as the claim states it: a field that is not exported holds at every
\* moment the value it had when Parse was called, and in the presence of
\* such a field the document step completes normally whenever the document
\* can be opened and decoded.
C18_UnexportedInert ==
    /\ \A i \in Hidden : tc.e[i] = tc0.e[i]
    /\ (Hidden # {} /\ "parseJSON" \in Ran /\ ~Unloadable) => status # "panicked"

\* v is a map whose values are strings
IsStringMap(v) == v.k = "map" /\ \A i \in 1..Len(v.e) : v.e[i].k = "string"

\* C17 as the claim states it: expand on a map whose values are strings
\* returns normally and leaves a map with the keys it had, as they were,
\* and under each key the expansion of the string that was there.
C17_MapValuesExpanded ==
    (ExpandOver /\ IsStringMap(tc0)) =>
        /\ status = "returned"
        /\ tc.k = "map" /\ tc.keys = tc0.keys
        /\ Len(tc.e) = Len(tc0.e)
        /\ \A i \in 1..Len(tc0.e) : tc.e[i] = StringV(ExpandEnv(tc0.e[i].s))

\* the value v with every string in it replaced by its expansion
RECURSIVE ExpandedOnce(_)
ExpandedOnce(v) ==
    CASE v.k = "string" -> StringV(ExpandEnv(v.s))
      [] v.k = "ptr" -> IF v.nil THEN v ELSE PtrTo(ExpandedOnce(v.e))
      [] v.k \in {"struct", "slice", "map"} ->
           [v EXCEPT !.e = [i \in 1..Len(v.e) |-> ExpandedOnce(v.e[i])]]
      [] OTHER -> v

\* C20 as the claim states it: expand on a value built from pointers,
\* structs, slices, maps and leaves, to any depth, returns, and leaves the
\* value with every string in it expanded once: with X set to "$Y", the
\* string "$X" becomes "$Y" and not the value of Y.
C20_ExpandTotalOnce ==
    ExpandOver =>
        /\ status = "returned"
        /\ tc = ExpandedOnce(tc0)

BareConfig == {DashDashConfig, DashConfig}
\* the config option is on the command line, in the form with a space
\* only, and nowhere with a value: each time it is the last argument or
\* the argument after it begins with a dash
BareConfigOnly ==
    /\ \E i \in 2..Len(Args) : Args[i] \in BareConfig
    /\ ConfigOptions = {}
\* every argument is a config option without a value
OnlyBare == Len(Args) >= 2 /\ \A i \in 2..Len(Args) : Args[i] \in BareConfig
\* every argument that is no such config option gives a registered flag a
\* value of its kind, in the form -name=value
OthersFine ==
    \A i \in 2..Len(Args) :
        Args[i] \notin BareConfig =>
            \E n \in DOMAIN formal :
                i \in EqArgs(n) /\ Converts(n, EqValue(i))
\* the document is looked for under the Path found when Parse was called
FromEntryPath ==
    jsonPaths # <<>> =>
        /\ jsonPaths[1] = entryPath
        /\ entryPath # <<>> => opened = <<Abs(ExpandEnv(entryPath))>>

C21_OverridesVerbatim ==
    Returned =>
        \A n \in {m \in FieldFlags : formal[m].kind = "string"} :
            /\ n \in DOMAIN cli => Stored(n) = StringV(cli[n])
            /\ (AllEqForm /\ EqArgs(n) # {})
                  => Stored(n) = StringV(EqValue(Last(EqArgs(n))))
            /\ (n \notin DOMAIN cli /\ EnvOf(n) # <<>>)
                  => /\ Stored(n) = StringV(EnvOf(n))
                     /\ (EnvOf(n) = RefX /\ Getenv(X) = <<"/", "u">>)
                           => Stored(n).s = <<"$", "X">>
            /\ (Opt(n, RefX) = Args[Len(Args)] /\ AllEqForm)
                  => Stored(n).s = <<"$", "X">>

\* C21 happens: FLAG1 is "$X" and X is /u, a document that gives flag1 a
\* value was loaded and expanded, flag1 is not on the command line, and
\* Parse has returned with Flag1 = "$X".
C21_Witness ==
    /\ Returned /\ DocLoaded
    /\ EnvOf(flag1) = RefX /\ Getenv(X) = <<"/", "u">>
    /\ DocKeys(Flag1) # {}
    /\ flag1 \notin DOMAIN cli
    /\ Field(tc, Flag1) = StringV(RefX)

\* the Path the argument scan leaves: the value of the first config option
\* that has one, else the Path found at entry
ScannedPath == IF ConfigOptions # {} THEN ConfigValue(First(ConfigOptions))
               ELSE entryPath
\* Parse has panicked over a document that cannot be opened or decoded
DocumentAbort == status = "panicked" /\ Unloadable
\* the document that failed is a well-formed text, with a member that does
\* not fit its field
Misfit == /\ opened # <<>> /\ opened[1] \in DOMAIN fs
          /\ fs[opened[1]].kind = "file" /\ fs[opened[1]].syntax

\* C25 as the claim states it: when Parse has panicked over a document that
\* cannot be opened or decoded, every field of the config struct holds the
\* value it had when Parse was called, and nothing but Path, set by the
\* argument scan, has changed.
C25_AbortLeavesObject ==
    DocumentAbort =>
        /\ tc = tc0
        /\ Path = ScannedPath
        /\ cli = <<>> /\ trace = <<"scan", "parseJSON">>

\* C25 amended: when Parse has panicked over a document that cannot be
\* opened or decoded, every field holds the value it had when Parse was
\* called, except that after a well-formed document with a member that does
\* not fit its field, each field for which the document has a member that
\* fits holds that member's value, unexpanded; nothing else but Path, set by
\* the argument scan, has changed.
C25_AbortLeavesObjectOrDecoded ==
    DocumentAbort =>
        /\ ~Misfit => tc = tc0
        /\ Misfit =>
              /\ tc.names = tc0.names /\ tc.tags = tc0.tags
              /\ \A i \in 1..Len(tc0.e) :
                    LET fit == {key \in DOMAIN DocObj :
                                   /\ JSONField(tc0, key) = i
                                   /\ DocObj[key].k = tc0.e[i].k}
                    IN IF fit = {} THEN tc.e[i] = tc0.e[i]
                       ELSE \E key \in fit : tc.e[i] = DocObj[key]
        /\ Path = ScannedPath
        /\ cli = <<>> /\ trace = <<"scan", "parseJSON">>

\* C25 happens: the document gives flag1 the string "j" and flagsix a string
\* where a number is due; Parse has panicked with Flag1 = "j", not the
\* default it had, and Flag6 as it was.
C25_Witness ==
    /\ DocumentAbort /\ Misfit
    /\ DocObj = (flag1 :> StringV(<<"j">>)) @@ (flagsix :> StringV(<<"s">>))
    /\ Field(tc0, Flag1) = StringV(<<"d">>)
    /\ Field(tc, Flag1) = StringV(<<"j">>)
    /\ Field(tc, Flag6) = IntV(1)

\* this call of Parse follows one on the same struct, tc, with the same
\* EnvPrefix
SecondOnSame == ret # <<>> /\ cArg = "tc" /\ ret.cArg = "tc" /\ ret.EnvPrefix = EnvPrefix
\* this call of Parse, on tc2, follows one on tc under another EnvPrefix
SecondOnOther == ret # <<>> /\ cArg = "tc2" /\ ret.cArg = "tc" /\ ret.EnvPrefix # EnvPrefix
\* the flags bound to field i of tc
FlagsTo(i) == {n \in DOMAIN formal : /\ formal[n].target = tc.names[i]
                                      /\ formal[n].obj = "tc"}
\* flag n is set from its variable by the environment binder and not from
\* the command line
BoundFromEnv(n) == /\ n \notin DOMAIN cli
                   /\ EnvOf(n) # <<>>
                   /\ formal[n].kind = "int" => ~ParseInt(EnvOf(n)).err

\* C22 as the claim states it: a second call of Parse on the same struct,
\* with the arguments, environment, EnvPrefix and files unchanged, leaves
\* every field and Path as the first call left them.
C22_ParseIdempotent ==
    (SecondOnSame /\ Returned) =>
        /\ tc = ret.tc
        /\ Path = ret.Path

\* field i of tc is set by this call from the document, the environment or
\* the command line
SetBySource(i) ==
    \/ DocKeys(tc.names[i]) # {}
    \/ \E n \in FlagsTo(i) : n \in DOMAIN cli \/ BoundFromEnv(n)

\* C22 amended: a second call of Parse on the same struct, with the
\* arguments, environment, EnvPrefix and files unchanged, that returns
\* leaves Path as the first call left it; it loads its document from the
\* first config option that has a value, else from the Path the first call
\* left; and when that is the path the first call loaded from, every field
\* that the document, the environment or the command line sets holds the
\* value the first call left, and any other field holds that value expanded
\* once more if a document is loaded, and that value if none is.
C22_ParseAgainExpandsAgain ==
    (SecondOnSame /\ Returned) =>
        /\ Path = ret.Path
        /\ jsonPaths = <<IF ConfigOptions # {}
                         THEN ConfigValue(First(ConfigOptions)) ELSE ret.Path>>
        /\ jsonPaths = ret.jsonPaths =>
              /\ tc.names = ret.tc.names /\ tc.tags = ret.tc.tags
              /\ \A i \in 1..Len(tc.e) :
                    tc.e[i] = IF SetBySource(i) \/ ~DocLoaded THEN ret.tc.e[i]
                              ELSE Expanded(ret.tc.e[i])

\* C22 happens: X is "$Y" and Y is "z", the default of flag1 is "$X" and
\* nothing else sets flag1; the first call left Flag1 = "$Y" and the second,
\* which loaded the same document, Flag1 = "z", while Flag2, which the
\* document sets to "$X", is "$Y" after both.
C22_Witness ==
    /\ SecondOnSame /\ Returned /\ DocLoaded
    /\ jsonPaths = ret.jsonPaths
    /\ Field(ret.tc, Flag1) = StringV(<<"$", "Y">>)
    /\ Field(tc, Flag1) = StringV(<<"z">>)
    /\ Field(ret.tc, Flag2) = StringV(<<"$", "Y">>)
    /\ Field(tc, Flag2) = StringV(<<"$", "Y">>)

\* C23 as the claim states it: when a call of Parse returns, the first or a
\* later one, Path is the path that call handed to parseJSON.
C23_PathIsDocument ==
    Returned => jsonPaths = <<Path>>

\* C23 amended: when a call of Parse returns, the first or a later one,
\* Path is the value flag.Parse last took for the config flag if it took
\* one, else the value of the variable EnvPrefix + "CONFIG" if that is not
\* empty, and only else the path that call handed to parseJSON.
C23_PathIsLastConfigSet ==
    Returned =>
        /\ Len(jsonPaths) = 1
        /\ Path = IF config \in DOMAIN cli THEN cli[config]
                  ELSE IF EnvOf(config) # <<>> THEN EnvOf(config)
                  ELSE jsonPaths[1]

\* C23 happens: with --config=a -config=b a second call of Parse has loaded
\* the document at a, as the first did, and returns with Path = "b"; and
\* with no config option and CONFIG=b the second call has loaded b, where
\* the first call loaded the default path.
C23_Witness ==
    /\ Returned /\ calls = 2 /\ cArg = "tc"
    /\ \/ /\ config \in DOMAIN cli
          /\ jsonPaths = <<<<"a">>>> /\ ret.jsonPaths = <<<<"a">>>>
          /\ Path = <<"b">> /\ ret.Path = <<"b">>
       \/ /\ config \notin DOMAIN cli /\ Getenv(CONFIG) = <<"b">>
          /\ ret.jsonPaths = <<DefaultPath>> /\ jsonPaths = <<<<"b">>>>
          /\ Path = <<"b">>

====
